---- MODULE Spec2Model ----
(***************************************************************************)
(* A model of the two tutorial circuits of migen-tutorial:                 *)
(*                                                                         *)
(*   - tutorial_1.py: BlinkerModule (a 3-bit counter, a combinatorial and  *)
(*     a synchronous comparison flag) and the 16-cycle testbench that      *)
(*     simulate_blinker runs on it, followed by the script entry point;    *)
(*   - tutorial_2.py: DemoPIDChain, a PID submodule between a rescale-up   *)
(*     and a rescale-down shift, bypassed when pid_enable is clear.        *)
(*                                                                         *)
(* migen semantics used: a Signal holds an integer wrapped to its width    *)
(* and signedness; `sync` statements are evaluated on the values before    *)
(* the clock edge and written together at the edge; `comb` statements are  *)
(* recomputed after every change; a testbench `yield sig` reads the        *)
(* current value and a bare `yield` waits for the next clock edge.         *)
(*                                                                         *)
(* Spec is the blinker script, ChainSpec the PID chain.  The PID itself    *)
(* (logic.pid) is an external block: its pid_out is any value of a signed  *)
(* signal_width-bit signal.  `If` in tutorial_2.py is read as migen's If   *)
(* (the file does not import it).                                          *)
(***************************************************************************)
EXTENDS Integers, Naturals, Sequences, FiniteSets, TLC

VARIABLES
    \* ---- tutorial_1.py ----
    pc,             \* position of the script / testbench generator / simulator
    counter,        \* BlinkerModule.counter, Signal(bits_for(7))
    blinker,        \* BlinkerModule.blinker, Signal()
    blinker_sync,   \* BlinkerModule.blinker_sync, Signal()
    i,              \* testbench loop variable
    tb_counter,     \* testbench local `counter`
    tb_b,           \* testbench local `b`
    tb_b_sync,      \* testbench local `b_sync`
    stdout,         \* the records printed so far
    settle_iter,    \* settle passes of the current step that changed a signal
    \* ---- tutorial_2.py ----
    chain_pc,       \* "off" | "new" | "running"
    width,          \* constructor argument
    signal_width,   \* constructor argument
    input,          \* DemoPIDChain.input, Signal((width, True))
    output,         \* DemoPIDChain.output, Signal((width, True))
    pid_enable,     \* DemoPIDChain.pid_enable.storage
    input_shifted,  \* Signal((signal_width, True))
    pid_input,      \* pid.input
    pid_running,    \* pid.running
    pid_out,        \* pid.pid_out
    pid_output      \* Signal((signal_width, True))

blinkerVars == <<pc, counter, blinker, blinker_sync, i, tb_counter, tb_b,
                 tb_b_sync, stdout, settle_iter>>
chainVars == <<chain_pc, width, signal_width, input, output, pid_enable,
               input_shifted, pid_input, pid_running, pid_out, pid_output>>
vars == <<blinkerVars, chainVars>>

-----------------------------------------------------------------------------
(* Signal values                                                           *)

Pow2(n) == 2 ^ n

\* Assignment to an unsigned Signal(w): the low w bits.
WrapUnsignedNoWrapMut(x, w) == x
WrapUnsigned(x, w) == x % Pow2(w)

\* The two's-complement reading of a w-bit pattern u in 0 .. 2^w - 1.
FromBits(u, w) == IF u >= Pow2(w - 1) THEN u - Pow2(w) ELSE u

\* Assignment to a signed Signal((w, True)): the low w bits, read as
\* two's complement.
WrapSigned(x, w) == FromBits(x % Pow2(w), w)

\* A comparison is a 1-bit value.
Bool(b) == IF b THEN 1 ELSE 0

\* migen.bits_for(n) for n > 0: the number of bits needed to store n.
bits_for(n) == CHOOSE r \in 1..31 : Pow2(r) >= n + 1 /\ Pow2(r - 1) < n + 1

-----------------------------------------------------------------------------
(* tutorial_1.py: BlinkerModule                                            *)

CounterMax == 7
CounterWidthMut == bits_for(CounterMax + 1)
CounterWidth == bits_for(CounterMax)
BlinkerThreshold == 4
N_cycles_to_simulate == 16

\* The signal values a statement reads.
Signals == [counter |-> counter, blinker |-> blinker, blinker_sync |-> blinker_sync]

\* self.sync += [self.counter.eq(self.counter + 1)]
CounterSyncMut(s) == WrapUnsigned(s.counter + 2, CounterWidth)
CounterSync(s) == WrapUnsigned(s.counter + 1, CounterWidth)

\* self.comb += [self.blinker.eq(self.counter >= 4)]
BlinkerCombLessMut(s) == WrapUnsigned(Bool(s.counter < BlinkerThreshold), 1)
BlinkerCombDelayedMut(s) == WrapUnsigned(s.blinker_sync, 1)
BlinkerCombLoopMut(s) == WrapUnsigned(1 - s.blinker, 1)
BlinkerComb(s) == WrapUnsigned(Bool(s.counter >= BlinkerThreshold), 1)

\* self.sync += [self.blinker_sync.eq(self.counter >= 4)]
BlinkerSyncSyncMut(s) == WrapUnsigned(Bool(s.counter + 1 >= BlinkerThreshold), 1)
BlinkerSyncSync(s) == WrapUnsigned(Bool(s.counter >= BlinkerThreshold), 1)

\* The synchronous statements of the module, by target, in the order the
\* source adds them to self.sync.
SyncTargets == <<"counter", "blinker_sync">>

SyncExpr(target, s) ==
    IF target = "counter" THEN CounterSync(s) ELSE BlinkerSyncSync(s)

\* What a synchronous statement reads while the clock edge is evaluated:
\* `before` holds the values before the edge, `pending` the writes already
\* collected in this edge.  Writes are not visible until the edge is over.
SyncViewMut(before, pending) ==
    [n \in DOMAIN before |->
        IF n \in DOMAIN pending THEN pending[n] ELSE before[n]]
SyncView(before, pending) == before

\* Evaluate the synchronous statements in the order `order`, collecting the
\* writes.
RECURSIVE ExecSync(_, _, _)
ExecSync(order, before, pending) ==
    IF order = <<>> THEN pending
    ELSE LET t == Head(order)
             v == SyncExpr(t, SyncView(before, pending))
         IN  ExecSync(Tail(order), before, (t :> v) @@ pending)

NoWrites == [n \in {} |-> 0]

\* The orders in which the two statements may be evaluated.
SyncOrders == {SyncTargets, <<SyncTargets[2], SyncTargets[1]>>}

\* The state of the signals after the edge, for one evaluation order.
AfterEdge(order) == ExecSync(order, Signals, NoWrites)

\* The record the testbench prints.
Record == [counter |-> tb_counter, blinker |-> tb_b, blinker_sync |-> tb_b_sync]

\* A testbench local that has not been assigned yet.
Unbound == 0 - 1

InitBlinker(p) ==
    /\ pc = p
    /\ counter = 0 /\ blinker = 0 /\ blinker_sync = 0
    /\ i = 0
    /\ tb_counter = Unbound /\ tb_b = Unbound /\ tb_b_sync = Unbound
    /\ stdout = <<>>
    /\ settle_iter = 0

\* if __name__ == "__main__": simulate_blinker() is entered
Main ==
    /\ pc = "main"
    /\ pc' = "construct"
    /\ UNCHANGED <<counter, blinker, blinker_sync, i, tb_counter, tb_b,
                   tb_b_sync, stdout, settle_iter, chainVars>>

\* dut = BlinkerModule(): every signal is created with reset value 0
Construct ==
    /\ pc = "construct"
    /\ counter' = 0 /\ blinker' = 0 /\ blinker_sync' = 0
    /\ pc' = "run_simulation"
    /\ UNCHANGED <<i, tb_counter, tb_b, tb_b_sync, stdout, settle_iter, chainVars>>

\* run_simulation(dut, testbench(dut), ...): the combinatorial statements
\* settle on the reset values and the generator is started.
RunSimulation ==
    /\ pc = "run_simulation"
    /\ blinker' = BlinkerComb(Signals)
    /\ i' = 0
    /\ pc' = "for"
    /\ UNCHANGED <<counter, blinker_sync, tb_counter, tb_b, tb_b_sync,
                   stdout, settle_iter, chainVars>>

\* for i in range(N_cycles_to_simulate): i holds the next index
ForLoopOneMoreMut ==
    /\ pc = "for"
    /\ pc' = IF i <= N_cycles_to_simulate THEN "read_counter" ELSE "sim_done"
    /\ UNCHANGED <<counter, blinker, blinker_sync, i, tb_counter, tb_b,
                   tb_b_sync, stdout, settle_iter, chainVars>>
ForLoop ==
    /\ pc = "for"
    /\ pc' = IF i < N_cycles_to_simulate THEN "read_counter" ELSE "sim_done"
    /\ UNCHANGED <<counter, blinker, blinker_sync, i, tb_counter, tb_b,
                   tb_b_sync, stdout, settle_iter, chainVars>>

\* counter = yield dut.counter
ReadCounter ==
    /\ pc = "read_counter"
    /\ tb_counter' = counter
    /\ pc' = "read_blinker"
    /\ UNCHANGED <<counter, blinker, blinker_sync, i, tb_b, tb_b_sync,
                   stdout, settle_iter, chainVars>>

\* b = yield dut.blinker
ReadBlinker ==
    /\ pc = "read_blinker"
    /\ tb_b' = blinker
    /\ pc' = "read_blinker_sync"
    /\ UNCHANGED <<counter, blinker, blinker_sync, i, tb_counter, tb_b_sync,
                   stdout, settle_iter, chainVars>>

\* b_sync = yield dut.blinker_sync
ReadBlinkerSync ==
    /\ pc = "read_blinker_sync"
    /\ tb_b_sync' = blinker_sync
    /\ pc' = "print"
    /\ UNCHANGED <<counter, blinker, blinker_sync, i, tb_counter, tb_b,
                   stdout, settle_iter, chainVars>>

\* print("Counter=", counter, "Blinker=", b, "Blinker_sync=", b_sync)
PrintRecord ==
    /\ pc = "print"
    /\ stdout' = Append(stdout, Record)
    /\ pc' = "yield"
    /\ UNCHANGED <<counter, blinker, blinker_sync, i, tb_counter, tb_b,
                   tb_b_sync, settle_iter, chainVars>>

\* yield: the clock edge.  Both synchronous statements are evaluated on the
\* values before the edge and written together; the circuit fixes no order
\* between them.
ClockEdge ==
    /\ pc = "yield"
    /\ \E order \in SyncOrders :
          LET after == AfterEdge(order)
          IN  /\ counter' = after.counter
              /\ blinker_sync' = after.blinker_sync
    /\ settle_iter' = 0
    /\ pc' = "settle"
    /\ UNCHANGED <<blinker, i, tb_counter, tb_b, tb_b_sync, stdout, chainVars>>

\* The most settle passes of one step that may change a signal before the
\* step is given up as a combinational loop.
SettleLimit == 4

\* What the evaluator does after a settle pass that computed `new` for a
\* signal holding `cur`, `iter` changing passes into the step: stop when the
\* pass changed nothing, run another pass, or give the step up as a
\* combinational loop.
SettleOutcome(new, cur, iter) ==
    IF new = cur THEN "converged"
    ELSE IF iter < SettleLimit THEN "again"
    ELSE "CombinationalLoopError"

\* After the edge the combinatorial statements are recomputed, pass after
\* pass ("executed whenever an input signal changes"), until a pass changes
\* nothing; then the generator is resumed and the loop takes its next index.
Settle ==
    /\ pc = "settle"
    /\ LET new == BlinkerComb(Signals)
           outcome == SettleOutcome(new, blinker, settle_iter)
       IN  \/ /\ outcome = "converged"
              /\ pc' = "for"
              /\ i' = i + 1
              /\ UNCHANGED <<blinker, settle_iter>>
           \/ /\ outcome = "again"
              /\ blinker' = new
              /\ settle_iter' = settle_iter + 1
              /\ UNCHANGED <<pc, i>>
           \/ /\ outcome = "CombinationalLoopError"
              /\ pc' = "CombinationalLoopError"
              /\ UNCHANGED <<blinker, i, settle_iter>>
    /\ UNCHANGED <<counter, blinker_sync, tb_counter, tb_b, tb_b_sync,
                   stdout, chainVars>>

\* The generator is exhausted: run_simulation returns, and simulate_blinker
\* returns None to the module level.
SimulationEnds ==
    /\ pc = "sim_done"
    /\ pc' = "returned"
    /\ UNCHANGED <<counter, blinker, blinker_sync, i, tb_counter, tb_b,
                   tb_b_sync, stdout, settle_iter, chainVars>>

\* simulate_blinker()(): the value returned, None, is called: TypeError.
CallResult ==
    /\ pc = "returned"
    /\ pc' = "TypeError"
    /\ UNCHANGED <<counter, blinker, blinker_sync, i, tb_counter, tb_b,
                   tb_b_sync, stdout, settle_iter, chainVars>>

-----------------------------------------------------------------------------
(* tutorial_2.py: DemoPIDChain                                             *)

DefaultWidth == 14
DefaultSignalWidth == 25

\* Constructor arguments up to these widths are explored with every value of
\* every signal; the default widths with the values of SampleSigned.
MaxWidth == 4
MaxSignalWidth == 6

\* The w-bit two's-complement pattern of x.
ToBits(x, w) == x % Pow2(w)

\* x << n for a signed w-bit operand: the pattern moves n places to the left
\* in a result of w + n bits.
ShlOneMoreMut(x, w, n) == FromBits(ToBits(x, w) * Pow2(n + 1), w + n + 1)
Shl(x, w, n) == FromBits(ToBits(x, w) * Pow2(n), w + n)

\* x >> n for a signed w-bit operand, 0 <= n <= w: the pattern moves n
\* places to the right and the sign bit fills the places left free.
ShrLogicalMut(x, w, n) == FromBits(ToBits(x, w) \div Pow2(n), w)
ShrOneLessMut(x, w, n) == IF n = 0 THEN x ELSE x \div Pow2(n - 1)
ShrTowardZeroMut(x, w, n) ==
    IF x < 0 THEN 0 - ((0 - x) \div Pow2(n)) ELSE x \div Pow2(n)
Shr(x, w, n) ==
    LET u == ToBits(x, w)
        fill == IF u >= Pow2(w - 1) THEN Pow2(w) - Pow2(w - n) ELSE 0
    IN  FromBits((u \div Pow2(n)) + fill, w)

\* bit_shift = signal_width - width
bit_shift_mut(w, sw) == sw - w + 1
bit_shift(w, sw) == sw - w

\* self.comb += [input_shifted.eq(self.input << bit_shift)]
InputShiftedComb(in, w, sw) == WrapSigned(Shl(in, w, bit_shift(w, sw)), sw)

\* self.pid.input.eq(input_shifted)
PidInputComb(in, shifted, sw) == WrapSigned(shifted, sw)

\* self.pid.running.eq(1)
PidRunningCombOffMut == WrapUnsigned(0, 1)
PidRunningComb == WrapUnsigned(1, 1)

\* pid_output.eq(self.pid.pid_out)
PidOutputComb(p, sw) == WrapSigned(p, sw)

\* If(self.pid_enable.storage, self.output.eq(pid_output >> bit_shift))
\*     .Else(self.output.eq(self.input))
OutputCombSwappedMut(en, po, in, w, sw) ==
    WrapSigned(IF en = 0 THEN Shr(po, sw, bit_shift(w, sw)) ELSE in, w)
OutputComb(en, po, in, w, sw) ==
    WrapSigned(IF en # 0 THEN Shr(po, sw, bit_shift(w, sw)) ELSE in, w)

\* The values of a signed w-bit signal.
SignedRange(w) == (0 - Pow2(w - 1)) .. (Pow2(w - 1) - 1)

\* For the default widths: the values around 0, around the ends of the range
\* and around the powers of two next to 2^bit_shift, of either sign.
SampleSigned(w) ==
    LET bs == DefaultSignalWidth - DefaultWidth
        ks == {0, bs - 1, bs, bs + 1, w - 2} \cap (0 .. (w - 2))
    IN  {s * Pow2(k) + d : s \in {0 - 1, 1}, k \in ks, d \in {0 - 1, 0, 1}}
            \cup {0 - Pow2(w - 1), 1 - Pow2(w - 1), Pow2(w - 1) - 1}

SignalValues(w) == IF w <= MaxSignalWidth THEN SignedRange(w) ELSE SampleSigned(w)

\* DemoPIDChain(width, signal_width) with signal_width >= width.
ConstructArgs ==
    {<<w, sw>> \in (1 .. MaxWidth) \X (1 .. MaxSignalWidth) : w <= sw}
        \cup {<<DefaultWidth, DefaultSignalWidth>>}

\* The combinatorial statements, recomputed from the signals that drive
\* them: input, pid_enable.storage and pid.pid_out.
ChainSettle(in, en, p, w, sw) ==
    LET shifted == InputShiftedComb(in, w, sw)
        po == PidOutputComb(p, sw)
    IN  /\ input_shifted' = shifted
        /\ pid_input' = PidInputComb(in, shifted, sw)
        /\ pid_running' = PidRunningComb
        /\ pid_output' = po
        /\ output' = OutputComb(en, po, in, w, sw)

InitChainOff ==
    /\ chain_pc = "off"
    /\ width = 0 /\ signal_width = 0
    /\ input = 0 /\ output = 0 /\ pid_enable = 0
    /\ input_shifted = 0 /\ pid_input = 0 /\ pid_running = 0
    /\ pid_out = 0 /\ pid_output = 0

InitChainNew ==
    /\ chain_pc = "new"
    /\ width = 0 /\ signal_width = 0
    /\ input = 0 /\ output = 0 /\ pid_enable = 0
    /\ input_shifted = 0 /\ pid_input = 0 /\ pid_running = 0
    /\ pid_out = 0 /\ pid_output = 0

\* DemoPIDChain.__init__: the signals are created with reset value 0 and the
\* combinatorial statements hold from the first cycle on.
ChainConstruct ==
    /\ chain_pc = "new"
    /\ \E args \in ConstructArgs :
          /\ width' = args[1]
          /\ signal_width' = args[2]
          /\ input' = 0 /\ pid_enable' = 0 /\ pid_out' = 0
          /\ ChainSettle(0, 0, 0, args[1], args[2])
    /\ chain_pc' = "running"
    /\ UNCHANGED blinkerVars

\* "will be connected by parent module": the parent drives input.
DriveInput ==
    /\ chain_pc = "running"
    /\ \E v \in SignalValues(width) :
          /\ input' = v
          /\ ChainSettle(v, pid_enable, pid_out, width, signal_width)
    /\ UNCHANGED <<chain_pc, width, signal_width, pid_enable, pid_out, blinkerVars>>

\* "registers the CPU may access": the CPU writes pid_enable (one bit).
WritePidEnable ==
    /\ chain_pc = "running"
    /\ \E v \in {0, 1} :
          /\ pid_enable' = v
          /\ ChainSettle(input, v, pid_out, width, signal_width)
    /\ UNCHANGED <<chain_pc, width, signal_width, input, pid_out, blinkerVars>>

\* A clock cycle of the PID submodule: pid_out takes the next value the PID
\* computes, which this module does not determine.
PidStep ==
    /\ chain_pc = "running"
    /\ \E v \in SignalValues(signal_width) :
          /\ pid_out' = v
          /\ ChainSettle(input, pid_enable, v, width, signal_width)
    /\ UNCHANGED <<chain_pc, width, signal_width, input, pid_enable, blinkerVars>>

Init == InitBlinker("main") /\ InitChainOff

Next ==
    \/ Main
    \/ Construct
    \/ RunSimulation
    \/ ForLoop
    \/ ReadCounter
    \/ ReadBlinker
    \/ ReadBlinkerSync
    \/ PrintRecord
    \/ ClockEdge
    \/ Settle
    \/ SimulationEnds
    \/ CallResult

Spec == Init /\ [][Next]_vars

ChainInit == InitBlinker("off") /\ InitChainNew

ChainNext ==
    \/ ChainConstruct
    \/ DriveInput
    \/ WritePidEnable
    \/ PidStep

ChainSpec == ChainInit /\ [][ChainNext]_vars

\* The round trip through the two shifts: the chain is instantiated and its
\* parent drives any value of input; the PID is then taken to be the
\* identity transform, pid_out = pid.input.
RoundTripInit ==
    /\ InitBlinker("off")
    /\ chain_pc = "running"
    /\ \E args \in ConstructArgs :
          /\ width = args[1]
          /\ signal_width = args[2]
    /\ input \in SignedRange(width)
    /\ pid_enable = 0
    /\ pid_out = 0
    /\ input_shifted = InputShiftedComb(input, width, signal_width)
    /\ pid_input = PidInputComb(input, input_shifted, signal_width)
    /\ pid_running = PidRunningComb
    /\ pid_output = PidOutputComb(pid_out, signal_width)
    /\ output = OutputComb(pid_enable, pid_output, input, width, signal_width)

\* A clock cycle of a PID that passes its input on unchanged.
PidIdentityStep ==
    /\ chain_pc = "running"
    /\ pid_out' = pid_input
    /\ ChainSettle(input, pid_enable, pid_input, width, signal_width)
    /\ UNCHANGED <<chain_pc, width, signal_width, input, pid_enable, blinkerVars>>

RoundTripNext ==
    \/ WritePidEnable
    \/ PidIdentityStep

RoundTripSpec == RoundTripInit /\ [][RoundTripNext]_vars

\* Either script is run.
AllInit == Init \/ ChainInit

AllNext == Next \/ ChainNext

AllSpec == AllInit /\ [][AllNext]_vars

-----------------------------------------------------------------------------
(* Properties of the blinker script (Spec)                                 *)

\* The positions at which the testbench runs, between two clock edges: the
\* signals it can read there are the settled values of the current cycle,
\* and i is the number of clock edges so far.
TestbenchPcs ==
    {"for", "read_counter", "read_blinker", "read_blinker_sync", "print", "yield"}

\* C1: after n clock steps from reset the counter reads n mod 8; it reads 0
\* after exactly 8 steps (7 + 1 wraps to 0) and after no step count 1..7.
C1_CounterIsStepsMod8 ==
    pc \in TestbenchPcs =>
        /\ counter = i % 8
        /\ (i \in 1..7 => counter # 0)
        /\ (i = 8 => counter = 0)

C1_Witness == pc = "read_counter" /\ i = 8 /\ counter = 0 /\ Len(stdout) = 8

Rises(k) == stdout[k].blinker = 0 /\ stdout[k + 1].blinker = 1
Falls(k) == stdout[k].blinker = 1 /\ stdout[k + 1].blinker = 0

C10_SimultaneousCommit ==
    [][pc = "yield" =>
          /\ \A o1, o2 \in SyncOrders : AfterEdge(o1) = AfterEdge(o2)
          /\ counter' = (counter + 1) % 8
          /\ blinker_sync' = Bool(counter >= 4)]_vars

C10_Witness == pc = "settle" /\ counter = 4 /\ blinker_sync = 0 /\ i = 3

-----------------------------------------------------------------------------
(* Properties of the PID chain (ChainSpec)                                 *)

Running == chain_pc = "running"

IsFloorDiv(q, p, n) == q * Pow2(n) <= p /\ p < (q + 1) * Pow2(n)

-----------------------------------------------------------------------------
(* Properties of both scripts (AllSpec)                                    *)

-----------------------------------------------------------------------------
(* Further properties of the blinker script (Spec)                         *)

\* What record number k (k = 0 .. 15) of the trace has to show.
ExpectedRecord(k) ==
    [counter |-> k % 8,
     blinker |-> Bool(k % 8 >= 4),
     blinker_sync |-> Bool(k >= 1 /\ (k - 1) % 8 >= 4)]

C13_SettleConverges ==
    /\ settle_iter <= 1
    /\ pc # "CombinationalLoopError"
    /\ (pc \in TestbenchPcs => BlinkerComb(Signals) = blinker)

\* A pass has changed blinker (counter reached 4) and the next pass will
\* find nothing to change.
C13_Witness == pc = "settle" /\ settle_iter = 1 /\ counter = 4 /\ blinker = 1

\* C14: running the script performs the 16-cycle simulation once and then
\* terminates normally, without an error after the simulation has finished.
C14_NoErrorAfterSimulation ==
    ~(pc = "TypeError" /\ Len(stdout) = N_cycles_to_simulate)

-----------------------------------------------------------------------------
(* Further properties of the PID chain (ChainSpec, RoundTripSpec)          *)

====
